---- MODULE Spec2Model ----
(***************************************************************************)
(* Model of cldfbench_jacquesestimative.py: the conversion of the raw      *)
(* estimative data (language rows, glossed examples, bibliography) into    *)
(* CLDF tables by Dataset.cmd_makecldf.                                     *)
(*                                                                         *)
(* Python strings are sequences of characters; a character is a string of  *)
(* length one ("U+2192" and the like stand for one non-ASCII character).   *)
(* A Python dict is a function whose DOMAIN is the set of its keys; a key  *)
(* that is not in the DOMAIN is a KeyError.                                 *)
(***************************************************************************)
EXTENDS Integers, Sequences, FiniteSets, TLC

(***************************************************************************)
(* Python's str and list primitives used by the program.                   *)
(***************************************************************************)

\* s[i:] for 1-based i (the empty string when i is past the end)
Drop(s, i) == IF i > Len(s) THEN <<>> ELSE SubSeq(s, i, Len(s))

\* s.startswith(pat, i - 1)
StartsWithAt(s, i, pat) ==
    /\ i + Len(pat) - 1 <= Len(s)
    /\ \A k \in 1..Len(pat) : s[i + k - 1] = pat[k]

\* s[i:].replace(pat, rep): every non-overlapping occurrence, left to right
RECURSIVE ReplaceFrom(_, _, _, _)
ReplaceFrom(s, i, pat, rep) ==
    IF i > Len(s) THEN <<>>
    ELSE IF StartsWithAt(s, i, pat)
         THEN rep \o ReplaceFrom(s, i + Len(pat), pat, rep)
         ELSE <<s[i]>> \o ReplaceFrom(s, i + 1, pat, rep)

\* s.replace(pat, rep) for a non-empty pat
Replace(s, pat, rep) == ReplaceFrom(s, 1, pat, rep)

\* the least j >= i with s[j] = c, or 0 when there is none
RECURSIVE IndexFrom(_, _, _)
IndexFrom(s, i, c) ==
    IF i > Len(s) THEN 0
    ELSE IF s[i] = c THEN i
    ELSE IndexFrom(s, i + 1, c)

IsSpace(c) == c \in {" ", "\t", "\n"}

\* s.lstrip()
RECURSIVE LStrip(_)
LStrip(s) ==
    IF s = <<>> THEN <<>>
    ELSE IF IsSpace(s[1]) THEN LStrip(Tail(s))
    ELSE s

\* s.rstrip()
RECURSIVE RStrip(_)
RStrip(s) ==
    IF s = <<>> THEN <<>>
    ELSE IF IsSpace(s[Len(s)]) THEN RStrip(SubSeq(s, 1, Len(s) - 1))
    ELSE s

\* s.strip()
Strip(s) == LStrip(RStrip(s))

\* the length of the run of non-space characters that starts at s[i]
RECURSIVE WordLen(_, _)
WordLen(s, i) ==
    IF i > Len(s) \/ IsSpace(s[i]) THEN 0 ELSE 1 + WordLen(s, i + 1)

\* s[i:].split()
RECURSIVE SplitFrom(_, _)
SplitFrom(s, i) ==
    IF i > Len(s) THEN <<>>
    ELSE IF IsSpace(s[i]) THEN SplitFrom(s, i + 1)
    ELSE LET n == WordLen(s, i)
         IN  <<SubSeq(s, i, i + n - 1)>> \o SplitFrom(s, i + n)

\* s.split(): the maximal runs of non-whitespace characters
Split(s) == SplitFrom(s, 1)

\* ' ' * n
RECURSIVE Spaces(_)
Spaces(n) == IF n <= 0 THEN <<>> ELSE <<" ">> \o Spaces(n - 1)

\* s.ljust(width)
LJust(s, width) == s \o Spaces(width - Len(s))

\* sep.join(parts)
RECURSIVE Join(_, _)
Join(parts, sep) ==
    IF parts = <<>> THEN <<>>
    ELSE IF Len(parts) = 1 THEN parts[1]
    ELSE parts[1] \o sep \o Join(Tail(parts), sep)

Digit(d) == <<"0", "1", "2", "3", "4", "5", "6", "7", "8", "9">>[d + 1]

\* str(n) for a natural number n: its decimal digits
RECURSIVE Str(_)
Str(n) == IF n < 10 THEN <<Digit(n)>> ELSE Str(n \div 10) \o <<Digit(n % 10)>>

LowerCase == <<"a", "b", "c", "d", "e", "f", "g", "h", "i", "j", "k", "l", "m",
               "n", "o", "p", "q", "r", "s", "t", "u", "v", "w", "x", "y", "z">>

UpperCase == <<"A", "B", "C", "D", "E", "F", "G", "H", "I", "J", "K", "L", "M",
               "N", "O", "P", "Q", "R", "S", "T", "U", "V", "W", "X", "Y", "Z">>

\* c.upper() for one character: a lower-case letter has an upper-case form,
\* any other character is its own
UpperChar(c) ==
    IF \E k \in 1..26 : LowerCase[k] = c
    THEN UpperCase[CHOOSE k \in 1..26 : LowerCase[k] = c]
    ELSE c

\* s.upper()
Upper(s) == [k \in 1..Len(s) |-> UpperChar(s[k])]

\* max(a, b)
Max(a, b) == IF a >= b THEN a ELSE b

\* min(a, b)
Min(a, b) == IF a <= b THEN a ELSE b

\* a dict with one more key, or the key's value replaced: d[k] = v
DictSet(d, k, v) == [x \in DOMAIN d \cup {k} |-> IF x = k THEN v ELSE d[x]]

\* the empty dict
EmptyDict == [x \in {} |-> <<>>]

(***************************************************************************)
(* Column names and dict keys of the program, as Python strings.           *)
(***************************************************************************)

K_ID == <<"I", "D">>
K_id == <<"i", "d">>
K_Glottocode == <<"G", "l", "o", "t", "t", "o", "c", "o", "d", "e">>
K_Family_ID == <<"F", "a", "m", "i", "l", "y", "_", "I", "D">>
K_family_id == <<"f", "a", "m", "i", "l", "y", "_", "i", "d">>
K_Parent_ID == <<"P", "a", "r", "e", "n", "t", "_", "I", "D">>
K_parent_id == <<"p", "a", "r", "e", "n", "t", "_", "i", "d">>
K_Name == <<"N", "a", "m", "e">>
K_name == <<"n", "a", "m", "e">>
K_Latitude == <<"L", "a", "t", "i", "t", "u", "d", "e">>
K_latitude == <<"l", "a", "t", "i", "t", "u", "d", "e">>
K_Longitude == <<"L", "o", "n", "g", "i", "t", "u", "d", "e">>
K_longitude == <<"l", "o", "n", "g", "i", "t", "u", "d", "e">>
K_ISO639P3code == <<"I", "S", "O", "6", "3", "9", "P", "3", "c", "o", "d", "e">>
K_iso639P3code == <<"i", "s", "o", "6", "3", "9", "P", "3", "c", "o", "d", "e">>
K_reference == <<"r", "e", "f", "e", "r", "e", "n", "c", "e">>
K_lang_id == <<"l", "a", "n", "g", "_", "i", "d">>
K_text == <<"t", "e", "x", "t">>
K_gloss == <<"g", "l", "o", "s", "s">>
K_trans == <<"t", "r", "a", "n", "s">>
K_Source == <<"S", "o", "u", "r", "c", "e">>
K_Source_comment == <<"S", "o", "u", "r", "c", "e", "_", "c", "o", "m", "m", "e", "n", "t">>
K_Language_ID == <<"L", "a", "n", "g", "u", "a", "g", "e", "_", "I", "D">>
K_Parameter_ID == <<"P", "a", "r", "a", "m", "e", "t", "e", "r", "_", "I", "D">>
K_Code_ID == <<"C", "o", "d", "e", "_", "I", "D">>
K_Value == <<"V", "a", "l", "u", "e">>
K_Primary_Text == <<"P", "r", "i", "m", "a", "r", "y", "_", "T", "e", "x", "t">>
K_Analyzed_Word == <<"A", "n", "a", "l", "y", "z", "e", "d", "_", "W", "o", "r", "d">>
K_Gloss == <<"G", "l", "o", "s", "s">>
K_Translated_Text == <<"T", "r", "a", "n", "s", "l", "a", "t", "e", "d", "_", "T", "e", "x", "t">>
K_Spreadsheet_Value == <<"S", "p", "r", "e", "a", "d", "s", "h", "e", "e", "t", "_", "V", "a", "l", "u", "e">>

(***************************************************************************)
(* The module's constants.                                                 *)
(***************************************************************************)

\* the pairs of LANGUAGE_COLUMN_MAP, in the order of the source
LANGUAGE_COLUMN_MAP ==
    << <<K_ID, K_id>>,
       <<K_Glottocode, K_id>>,
       <<K_Family_ID, K_family_id>>,
       <<K_Parent_ID, K_parent_id>>,
       <<K_Name, K_name>>,
       <<K_Latitude, K_latitude>>,
       <<K_Longitude, K_longitude>>,
       <<K_ISO639P3code, K_iso639P3code>>,
       <<K_reference, K_reference>> >>

EXAMPLE_COLUMNS == <<K_lang_id, K_text, K_gloss, K_trans, K_reference>>

\* REGEX_REFERENCE, matched as re.match does: at the start of the string.
\*     \\cite(?:p|t|alt)(?:\[([^\]]+)\])?\{([^}]*)\}
\* The result is <<>> (no match) or <<m>>, m.pages being <<>> (the group took
\* no part: None) or <<the locator>>, m.bibkey the key, m.end the index of the
\* closing brace.

\* \{([^}]*)\} at s[i:]: the key runs to the first closing brace
MatchKey(s, i, pages) ==
    IF i <= Len(s) /\ s[i] = "{" /\ IndexFrom(s, i + 1, "}") # 0
    THEN LET j == IndexFrom(s, i + 1, "}")
         IN  << [pages |-> pages, bibkey |-> SubSeq(s, i + 1, j - 1), end |-> j] >>
    ELSE <<>>

\* (?:\[([^\]]+)\])? then the key, at s[i:]. [^\]]+ runs to the first closing
\* bracket and takes at least one character; when the bracketed group or what
\* follows it fails, the group is skipped and the key is tried at s[i]
MatchLocatorAndKey(s, i) ==
    LET j == IndexFrom(s, i + 1, "]")
        withLocator ==
            IF i <= Len(s) /\ s[i] = "[" /\ j >= i + 2
            THEN MatchKey(s, j + 1, <<SubSeq(s, i + 1, j - 1)>>)
            ELSE <<>>
    IN  IF withLocator # <<>> THEN withLocator ELSE MatchKey(s, i, <<>>)

\* re.match(REGEX_REFERENCE, s)
MatchReference(s) ==
    LET cite == <<"\\", "c", "i", "t", "e">>
    IN  IF ~StartsWithAt(s, 1, cite) THEN <<>>
        ELSE IF StartsWithAt(s, 6, <<"p">>) THEN MatchLocatorAndKey(s, 7)
        ELSE IF StartsWithAt(s, 6, <<"t">>) THEN MatchLocatorAndKey(s, 7)
        ELSE IF StartsWithAt(s, 6, <<"a", "l", "t">>) THEN MatchLocatorAndKey(s, 9)
        ELSE <<>>

(***************************************************************************)
(* The module's functions.                                                 *)
(***************************************************************************)

\* patch_biblio: the two literal replacements, one after the other. The
\* bibliography is a sequence of text fragments; each of the four literals of
\* the source is one fragment ("Ringe1" and "Ringe2" the first pair,
\* "Yahalom1" and "Yahalom2" the second)
patch_biblio(code) ==
    Replace(Replace(code, <<"Ringe1">>, <<"Ringe2">>), <<"Yahalom1">>, <<"Yahalom2">>)

\* add_source with Source_comment set for every row, matched or not
add_source_Both(row) ==
    LET reference_match == MatchReference(row[K_reference])
        commented == DictSet(row, K_Source_comment, row[K_reference])
    IN  IF reference_match # <<>>
        THEN LET pages == reference_match[1].pages
                 bibkey == reference_match[1].bibkey
                 reference ==
                     IF pages # <<>> /\ pages[1] # <<>>
                     THEN bibkey \o <<"[">> \o Replace(pages[1], <<";">>, <<",">>) \o <<"]">>
                     ELSE bibkey
             IN  DictSet(commented, K_Source, <<reference>>)
        ELSE commented

\* s.replace(pat, rep, 1): the first occurrence only
RECURSIVE ReplaceFirstFrom(_, _, _, _)
ReplaceFirstFrom(s, i, pat, rep) ==
    IF i > Len(s) THEN <<>>
    ELSE IF StartsWithAt(s, i, pat)
         THEN rep \o Drop(s, i + Len(pat))
         ELSE <<s[i]>> \o ReplaceFirstFrom(s, i + 1, pat, rep)

\* add_source with only the first semicolon of the locator replaced
add_source_ReplaceOnce(row) ==
    LET reference_match == MatchReference(row[K_reference])
    IN  IF reference_match # <<>>
        THEN LET pages == reference_match[1].pages
                 bibkey == reference_match[1].bibkey
                 reference ==
                     IF pages # <<>> /\ pages[1] # <<>>
                     THEN bibkey \o <<"[">>
                              \o ReplaceFirstFrom(pages[1], 1, <<";">>, <<",">>) \o <<"]">>
                     ELSE bibkey
             IN  DictSet(row, K_Source, <<reference>>)
        ELSE DictSet(row, K_Source_comment, row[K_reference])

\* add_source: a row gets Source (the pattern matches) or Source_comment
add_source(row) ==
    LET reference_match == MatchReference(row[K_reference])
    IN  IF reference_match # <<>>
        THEN LET pages == reference_match[1].pages
                 bibkey == reference_match[1].bibkey
                 reference ==
                     IF pages # <<>> /\ pages[1] # <<>>
                     THEN bibkey \o <<"[">> \o Replace(pages[1], <<";">>, <<",">>) \o <<"]">>
                     ELSE bibkey
             IN  DictSet(row, K_Source, <<reference>>)
        ELSE DictSet(row, K_Source_comment, row[K_reference])

\* fix_example_lang_id
fix_example_lang_id(language_id) ==
    IF language_id = <<"w", "a", "r", "a", "1", "2", "4", "7">>
    THEN <<"w", "a", "r", "a", "1", "3", "0", "0">>
    ELSE language_id

\* re.sub(r'\\textsc\{([^}]*)(?:\}|$)', upper of group 1) on s[i:]: the
\* argument runs to the first closing brace, or to the end of the string
RECURSIVE SubTextsc(_, _)
SubTextsc(s, i) ==
    LET textsc == <<"\\", "t", "e", "x", "t", "s", "c", "{">>
    IN  IF i > Len(s) THEN <<>>
        ELSE IF StartsWithAt(s, i, textsc)
             THEN LET from == i + Len(textsc)
                      j == IndexFrom(s, from, "}")
                  IN  IF j = 0
                      THEN Upper(Drop(s, from))
                      ELSE Upper(SubSeq(s, from, j - 1)) \o SubTextsc(s, j + 1)
             ELSE <<s[i]>> \o SubTextsc(s, i + 1)

\* detex
detex(gloss) ==
    LET g1 == Replace(gloss,
                      <<"$", "\\", "r", "i", "g", "h", "t", "a", "r", "r", "o", "w", "$">>,
                      <<"U+2192">>)
        g2 == Replace(g1,
                      <<"$", "\\", "e", "m", "p", "t", "y", "s", "e", "t", "$">>,
                      <<"U+2205">>)
        g3 == Replace(g2, <<"\\", "t", "l", "d", "{", "}">>, <<"~">>)
    IN  SubTextsc(g3, 1)

\* list(map(detex, s.split()))
DetexTokens(s) == LET toks == Split(s) IN [k \in 1..Len(toks) |-> detex(toks[k])]

\* dict.get(k): <<>> stands for None, <<v>> for the value v
DictGet(d, k) == IF k \in DOMAIN d THEN <<d[k]>> ELSE <<>>

\* whether every key of the sequence keys is a key of d (no KeyError)
HasKeys(d, keys) == \A k \in 1..Len(keys) : keys[k] \in DOMAIN d

\* the dict built from the first n (key, value) pairs, a later pair replacing
\* an earlier one of the same key
RECURSIVE DictOfPairs(_, _)
DictOfPairs(pairs, n) ==
    IF n = 0 THEN EmptyDict
    ELSE DictSet(DictOfPairs(pairs, n - 1), pairs[n][1], pairs[n][2])

\* the keys of the first n pairs in the order of their first occurrence
RECURSIVE KeyOrder(_, _)
KeyOrder(pairs, n) ==
    IF n = 0 THEN <<>>
    ELSE LET before == KeyOrder(pairs, n - 1)
         IN  IF \E k \in 1..Len(before) : before[k] = pairs[n][1]
             THEN before
             ELSE Append(before, pairs[n][1])

\* collections.OrderedDict(pairs): the keys in insertion order, and the dict
OrderedDict(pairs) ==
    [keys |-> KeyOrder(pairs, Len(pairs)), map |-> DictOfPairs(pairs, Len(pairs))]

\* list(od.values())
Values(od) == [k \in 1..Len(od.keys) |-> od.map[od.keys[k]]]

\* dict(zip_longest(keys, vals, fillvalue='')) cut to the keys: a missing
\* value is the empty string
ZipDict_Longest(keys, vals) ==
    DictOfPairs([k \in 1..Len(keys) |->
                    <<keys[k], IF k <= Len(vals) THEN vals[k] ELSE <<>> >>],
                Len(keys))

\* dict(zip(keys, vals)): zip stops at the shorter of the two
ZipDict(keys, vals) ==
    LET n == Min(Len(keys), Len(vals))
    IN  DictOfPairs([k \in 1..n |-> <<keys[k], vals[k]>>], n)

\* the '{}-{}'.format(a, b) of two strings
FormatPair(a, b) == a \o <<"-">> \o b

\* code_id_map of cmd_makecldf: (Parameter_ID, Spreadsheet_Value) -> ID over
\* code_table.values(), a later code replacing an earlier one of the same pair
CodeIdMap(code_table) ==
    LET codes == Values(code_table)
    IN  DictOfPairs([k \in 1..Len(codes) |->
                        << <<codes[k][K_Parameter_ID], codes[k][K_Spreadsheet_Value]>>,
                           codes[k][K_ID] >>],
                    Len(codes))

\* the ID with the parameter in the place of the language
ValueId_ParameterTwice(language_id, param_id) == FormatPair(param_id, param_id)

\* '{}-{}'.format(row['id'], param_id)
ValueId(language_id, param_id) == FormatPair(language_id, param_id)

\* whether make_value(row, ..., param_id) raises no KeyError
make_value_ok(row, code_table, code_id_map, param_id) ==
    /\ K_id \in DOMAIN row
    /\ param_id \in DOMAIN row
    /\ LET code_id == DictGet(code_id_map, <<param_id, row[param_id]>>)
       IN  (code_id # <<>> /\ code_id[1] # <<>>) =>
               /\ code_id[1] \in DOMAIN code_table.map
               /\ K_Name \in DOMAIN code_table.map[code_id[1]]

\* make_value; "if code_id:" is false of None and of the empty string
make_value(row, code_table, code_id_map, param_id) ==
    LET value_row ==
            DictOfPairs(<< <<K_ID, ValueId(row[K_id], param_id)>>,
                           <<K_Language_ID, row[K_id]>>,
                           <<K_Parameter_ID, param_id>> >>, 3)
        code_id == DictGet(code_id_map, <<param_id, row[param_id]>>)
    IN  IF code_id # <<>> /\ code_id[1] # <<>>
        THEN DictSet(DictSet(value_row, K_Code_ID, code_id[1]),
                     K_Value, code_table.map[code_id[1]][K_Name])
        ELSE DictSet(value_row, K_Value, row[param_id])

\* render_example
render_example(example) ==
    LET words == example[K_Analyzed_Word]
        glosses == example[K_Gloss]
        id_width == Len(example[K_ID])
        widths == [k \in 1..Min(Len(words), Len(glosses)) |->
                      Max(Len(words[k]), Len(glosses[k]))]
        padded_words == [k \in 1..Len(words) |->
                            LJust(words[k], IF k <= Len(widths) THEN widths[k] ELSE 0)]
        padded_glosses == [k \in 1..Len(glosses) |->
                              LJust(glosses[k], IF k <= Len(widths) THEN widths[k] ELSE 0)]
    IN  <<"(">> \o example[K_ID] \o <<")", " ", " ">>
            \o RStrip(Join(padded_words, <<" ", " ">>))
            \o <<"\n">> \o Spaces(id_width) \o <<" ", " ", " ", " ">>
            \o RStrip(Join(padded_glosses, <<" ", " ">>))

\* the line that print("ERROR: Misaligned glosses in examples:") writes
ErrorHeader == <<"ERROR: Misaligned glosses in examples:">>

\* the lines of the first n mismatched examples: an empty line and the
\* rendered example for each
RECURSIVE MismatchLines(_, _)
MismatchLines(mismatched_examples, n) ==
    IF n = 0 THEN <<>>
    ELSE MismatchLines(mismatched_examples, n - 1)
             \o << <<>>, render_example(mismatched_examples[n]) >>

IsMismatched(example) == Len(example[K_Analyzed_Word]) # Len(example[K_Gloss])

\* warn_about_glosses that stops after the first mismatched example
warn_about_glosses_FirstOnly(example_table) ==
    LET mismatched_examples == SelectSeq(example_table, IsMismatched)
    IN  IF mismatched_examples # <<>>
        THEN <<ErrorHeader>> \o MismatchLines(mismatched_examples, 1)
        ELSE <<>>

\* warn_about_glosses: the lines it prints to sys.stderr
warn_about_glosses(example_table) ==
    LET mismatched_examples == SelectSeq(example_table, IsMismatched)
    IN  IF mismatched_examples # <<>>
        THEN <<ErrorHeader>> \o MismatchLines(mismatched_examples, Len(mismatched_examples))
        ELSE <<>>

\* the Glottocode of the record taken from a raw column Glottocode
LanguageRow_FromGlottocode(row) ==
    DictOfPairs([k \in 1..Len(LANGUAGE_COLUMN_MAP) |->
                    <<LANGUAGE_COLUMN_MAP[k][1],
                      IF /\ LANGUAGE_COLUMN_MAP[k][1] = K_Glottocode
                         /\ K_Glottocode \in DOMAIN row
                      THEN row[K_Glottocode]
                      ELSE row[LANGUAGE_COLUMN_MAP[k][2]]>>],
                Len(LANGUAGE_COLUMN_MAP))

\* one dict of language_table: {new_key: row[old_key] for new_key, old_key in
\* LANGUAGE_COLUMN_MAP}
LanguageRow(row) ==
    DictOfPairs([k \in 1..Len(LANGUAGE_COLUMN_MAP) |->
                    <<LANGUAGE_COLUMN_MAP[k][1], row[LANGUAGE_COLUMN_MAP[k][2]]>>],
                Len(LANGUAGE_COLUMN_MAP))

\* whether LanguageRow(row) raises no KeyError
LanguageRowOk(row) ==
    \A k \in 1..Len(LANGUAGE_COLUMN_MAP) : LANGUAGE_COLUMN_MAP[k][2] \in DOMAIN row

\* one dict of example_table, as the comprehension builds it
ExampleRow(example) ==
    DictOfPairs(<< <<K_Language_ID, fix_example_lang_id(example[K_lang_id])>>,
                   <<K_Primary_Text, detex(example[K_text])>>,
                   <<K_Analyzed_Word, DetexTokens(example[K_text])>>,
                   <<K_Gloss, DetexTokens(example[K_gloss])>>,
                   <<K_Translated_Text, Strip(example[K_trans])>>,
                   <<K_reference, example[K_reference]>> >>, 6)

\* whether ExampleRow(example) raises no KeyError
ExampleRowOk(example) == HasKeys(example, EXAMPLE_COLUMNS)

\* the value table: make_value for every row and, within it, every parameter
RECURSIVE ValueRows(_, _, _, _, _)
ValueRows(rows, parameter_ids, code_table, code_id_map, n) ==
    IF n = 0 THEN <<>>
    ELSE ValueRows(rows, parameter_ids, code_table, code_id_map, n - 1)
             \o [k \in 1..Len(parameter_ids) |->
                    make_value(rows[n], code_table, code_id_map, parameter_ids[k])]

\* the greatest count of a counter, 0 for the empty one
MaxCount(counter) ==
    IF DOMAIN counter = {} THEN 0
    ELSE CHOOSE n \in {counter[l] : l \in DOMAIN counter} :
             \A l \in DOMAIN counter : counter[l] <= n

\* one counter for all languages
CountExample_Global(counter, language_id) ==
    DictSet(counter, language_id, MaxCount(counter) + 1)

\* "= 1" in the place of "+= 1"
CountExample_Reset(counter, language_id) == DictSet(counter, language_id, 1)

\* examples_per_language[language_id] += 1 on a collections.Counter, whose
\* missing keys count 0
CountExample(counter, language_id) ==
    DictSet(counter, language_id,
            (IF language_id \in DOMAIN counter THEN counter[language_id] ELSE 0) + 1)

\* '{}-{}'.format(example['Language_ID'], examples_per_language[...])
ExampleId(language_id, n) == FormatPair(language_id, Str(n))

\* the four add_component calls: the component and the columns added to it
SchemaComponents ==
    << [component |-> "LanguageTable",
        columns |-> <<"Family_ID", "Parent_ID", "Source", "Source_comment">>],
       [component |-> "ParameterTable", columns |-> <<>>],
       [component |-> "CodeTable", columns |-> <<>>],
       [component |-> "ExampleTable", columns |-> <<"Source", "Source_comment">>] >>

(***************************************************************************)
(* The state of one run of Dataset.cmd_makecldf.                           *)
(***************************************************************************)

VARIABLES
    in_data,        \* raw/estimative.csv: the rows as dicts
    in_examples,    \* raw/estimative-ex.csv: the rows as lists of columns
    in_bib,         \* raw/bibliogj.bib
    in_params,      \* etc/parameters.csv
    in_codes,       \* etc/codes.csv
    raw_data,
    raw_examples,
    bibtex_code,
    parameter_table,
    code_table,
    language_table,
    value_table,
    example_table,
    examples_per_language,
    idx,            \* the position of "for example in example_table"
    stderr,         \* the lines printed to sys.stderr
    writer_components,  \* args.writer.cldf.add_component calls
    writer_sources,     \* args.writer.cldf.add_sources calls
    writer_objects,     \* args.writer.objects
    pc

files == <<in_data, in_examples, in_bib, in_params, in_codes>>

inputs == <<raw_data, raw_examples, bibtex_code, parameter_table, code_table>>

tables == <<language_table, value_table, example_table, examples_per_language, idx>>

writer == <<writer_components, writer_sources, writer_objects>>

vars == <<files, inputs, tables, stderr, writer, pc>>

\* the state cmd_makecldf starts in: nothing read, nothing built or written
Blank ==
    /\ raw_data = <<>>
    /\ raw_examples = <<>>
    /\ bibtex_code = <<>>
    /\ parameter_table = <<>>
    /\ code_table = OrderedDict(<<>>)
    /\ language_table = <<>>
    /\ value_table = <<>>
    /\ example_table = <<>>
    /\ examples_per_language = EmptyDict
    /\ idx = 0
    /\ stderr = <<>>
    /\ writer_components = <<>>
    /\ writer_sources = <<>>
    /\ writer_objects = EmptyDict
    /\ pc = "start"

(***************************************************************************)
(* The steps of cmd_makecldf. An uncaught KeyError ends the run: "failed". *)
(***************************************************************************)

\* "read input": the five files are read; the example rows are zipped with
\* EXAMPLE_COLUMNS, the bibliography is patched, the codes are keyed by ID
ReadInput ==
    /\ pc = "start"
    /\ IF \A k \in 1..Len(in_codes) : K_ID \in DOMAIN in_codes[k]
       THEN /\ raw_data' = in_data
            /\ raw_examples' = [k \in 1..Len(in_examples) |->
                                   ZipDict(EXAMPLE_COLUMNS, in_examples[k])]
            /\ bibtex_code' = patch_biblio(in_bib)
            /\ parameter_table' = in_params
            /\ code_table' = OrderedDict([k \in 1..Len(in_codes) |->
                                             <<in_codes[k][K_ID], in_codes[k]>>])
            /\ pc' = "languages"
       ELSE /\ pc' = "failed"
            /\ UNCHANGED inputs
    /\ UNCHANGED <<files, tables, stderr, writer>>

\* language_table and the add_source of each of its rows
BuildLanguageTable ==
    /\ pc = "languages"
    /\ IF \A k \in 1..Len(raw_data) : LanguageRowOk(raw_data[k])
       THEN /\ language_table' = [k \in 1..Len(raw_data) |->
                                     add_source(LanguageRow(raw_data[k]))]
            /\ pc' = "values"
       ELSE /\ pc' = "failed"
            /\ UNCHANGED language_table
    /\ UNCHANGED <<files, inputs, value_table, example_table,
                   examples_per_language, idx, stderr, writer>>

\* parameter_ids, code_id_map and value_table
BuildValueTable ==
    /\ pc = "values"
    /\ IF /\ \A k \in 1..Len(parameter_table) : K_ID \in DOMAIN parameter_table[k]
          /\ \A k \in 1..Len(code_table.keys) :
                 HasKeys(code_table.map[code_table.keys[k]],
                         <<K_Parameter_ID, K_Spreadsheet_Value, K_ID>>)
          /\ \A r \in 1..Len(raw_data) : \A k \in 1..Len(parameter_table) :
                 make_value_ok(raw_data[r], code_table, CodeIdMap(code_table),
                               parameter_table[k][K_ID])
       THEN /\ value_table' =
                   ValueRows(raw_data,
                             [k \in 1..Len(parameter_table) |-> parameter_table[k][K_ID]],
                             code_table, CodeIdMap(code_table), Len(raw_data))
            /\ pc' = "examples"
       ELSE /\ pc' = "failed"
            /\ UNCHANGED value_table
    /\ UNCHANGED <<files, inputs, language_table, example_table,
                   examples_per_language, idx, stderr, writer>>

\* BuildExampleTable with the schema declared before the table is built
BuildExampleTable_SchemaFirst ==
    /\ pc = "examples"
    /\ writer_components' = writer_components \o SchemaComponents
    /\ IF \A k \in 1..Len(raw_examples) : ExampleRowOk(raw_examples[k])
       THEN /\ example_table' = [k \in 1..Len(raw_examples) |->
                                    ExampleRow(raw_examples[k])]
            /\ idx' = 1
            /\ pc' = "number"
       ELSE /\ pc' = "failed"
            /\ UNCHANGED <<example_table, idx>>
    /\ UNCHANGED <<files, inputs, language_table, value_table,
                   examples_per_language, stderr, writer_sources, writer_objects>>

\* example_table, before the examples are numbered
BuildExampleTable ==
    /\ pc = "examples"
    /\ IF \A k \in 1..Len(raw_examples) : ExampleRowOk(raw_examples[k])
       THEN /\ example_table' = [k \in 1..Len(raw_examples) |->
                                    ExampleRow(raw_examples[k])]
            /\ idx' = 1
            /\ pc' = "number"
       ELSE /\ pc' = "failed"
            /\ UNCHANGED <<example_table, idx>>
    /\ UNCHANGED <<files, inputs, language_table, value_table,
                   examples_per_language, stderr, writer>>

\* one turn of "for example in example_table": count, ID, add_source
NumberExample ==
    /\ pc = "number"
    /\ idx <= Len(example_table)
    /\ LET example == example_table[idx]
           counter == CountExample(examples_per_language, example[K_Language_ID])
           id == ExampleId(example[K_Language_ID], counter[example[K_Language_ID]])
       IN  /\ examples_per_language' = counter
           /\ example_table' =
                  [example_table EXCEPT ![idx] = add_source(DictSet(example, K_ID, id))]
    /\ idx' = idx + 1
    /\ UNCHANGED <<files, inputs, language_table, value_table, stderr, writer, pc>>

\* the loop is over: warn_about_glosses(example_table)
WarnAboutGlosses ==
    /\ pc = "number"
    /\ idx > Len(example_table)
    /\ stderr' = stderr \o warn_about_glosses(example_table)
    /\ pc' = "schema"
    /\ UNCHANGED <<files, inputs, tables, writer>>

\* "cldf schema": the four add_component calls
DeclareSchema ==
    /\ pc = "schema"
    /\ writer_components' = writer_components \o SchemaComponents
    /\ pc' = "output"
    /\ UNCHANGED <<files, inputs, tables, stderr, writer_sources, writer_objects>>

\* "cldf output": add_sources and the five tables
WriteOutput ==
    /\ pc = "output"
    /\ writer_sources' = Append(writer_sources, bibtex_code)
    /\ writer_objects' =
           DictSet(DictSet(DictSet(DictSet(DictSet(writer_objects,
               "LanguageTable", language_table),
               "ParameterTable", parameter_table),
               "CodeTable", Values(code_table)),
               "ValueTable", value_table),
               "ExampleTable", example_table)
    /\ pc' = "done"
    /\ UNCHANGED <<files, inputs, tables, stderr, writer_components>>

Next ==
    \/ ReadInput
    \/ BuildLanguageTable
    \/ BuildValueTable
    \/ BuildExampleTable
    \/ NumberExample
    \/ WarnAboutGlosses
    \/ DeclareSchema
    \/ WriteOutput

(***************************************************************************)
(* The inputs of the runs that are checked.                                *)
(***************************************************************************)

\* the longest example file, data file, code file, and the longest free tail
\* of a reference string
MaxExamples == 3
MaxRows == 2
MaxCodes == 2
MaxTail == 3

\* the sequences over S of length at most n
BoundedSeq(S, n) == UNION {[1..k -> S] : k \in 0..n}

\* d without the keys of the set keys
Without(d, keys) == [k \in DOMAIN d \ keys |-> d[k]]

S_wara1247 == <<"w", "a", "r", "a", "1", "2", "4", "7">>
S_wara1300 == <<"w", "a", "r", "a", "1", "3", "0", "0">>
S_a == <<"a">>
S_a1 == <<"a", "-", "1">>
S_ab == <<"a", "b">>
S_a_b == <<"a", "-", "b">>
S_b_c == <<"b", "-", "c">>
S_c == <<"c">>
S_1 == <<"1">>
S_x == <<"x">>
S_pc == <<"p", ".", "c", ".">>
S_cite273 == <<"\\", "c", "i", "t", "e", "t", "[", "2", "7", "3", "]", "{", "b", "7", "9", "}">>
S_citep_j == <<"\\", "c", "i", "t", "e", "p", "{", "j", "}">>
S_trans == <<" ", "o", "k", " ">>

\* two words and two glosses
Text1 == <<"y", "e", " ", "h", "i">>
Gloss1 == <<"c", "h", " ", "s", "e", "e", "-", "\\", "t", "e", "x", "t", "s", "c", "{", "r", ".", "p", "}", "-", "3">>
\* three words and two glosses
Text2 == <<"a", " ", "b", " ", "c">>
Gloss2 == <<"x", " ", "$", "\\", "r", "i", "g", "h", "t", "a", "r", "r", "o", "w", "$">>
\* one word and three glosses
Text3 == <<"a", "b">>
Gloss3 == <<"x", " ", "\\", "t", "l", "d", "{", "}", " ", "\\", "t", "e", "x", "t", "s", "c", "{", "y">>

\* rows of estimative-ex.csv: five columns, and one row of four and one of six
ExampleChoices ==
    { <<S_wara1247, Text1, Gloss1, S_trans, S_cite273>>,
      <<S_wara1247, Text2, Gloss2, S_trans, S_pc>>,
      <<S_wara1300, Text2, Gloss2, S_trans, S_pc>>,
      <<S_wara1300, Text1, Gloss1, S_trans, S_citep_j>>,
      <<S_a, Text1, Gloss1, S_trans, <<>> >>,
      <<S_a, Text3, Gloss3, <<>>, S_pc>>,
      <<S_a1, Text2, Gloss2, S_trans, S_cite273>>,
      <<S_a1, Text1, Gloss1, S_trans, S_pc>>,
      <<S_a, Text1, Gloss1, S_trans>>,
      <<S_wara1247, Text1, Gloss1, S_trans, S_pc, <<"e", "x", "t", "r", "a">> >> }

\* a row of estimative.csv: the language columns and the cells of the
\* parameters b-c and c
DataRow(id, reference, cell_bc, cell_c) ==
    DictOfPairs(<< <<K_id, id>>,
                   <<K_family_id, <<>> >>,
                   <<K_parent_id, <<>> >>,
                   <<K_name, <<"n">> >>,
                   <<K_latitude, <<"1">> >>,
                   <<K_longitude, <<"2">> >>,
                   <<K_iso639P3code, <<>> >>,
                   <<K_reference, reference>>,
                   <<S_b_c, cell_bc>>,
                   <<S_c, cell_c>> >>, 10)

\* a row that has columns named ID and Glottocode besides
WithUpperColumns(row) ==
    DictSet(DictSet(row, K_ID, <<"7">>),
            K_Glottocode, <<"g", "l", "o", "t", "1", "2", "3", "4">>)

\* a row of parameters.csv
Parameter(id) == DictOfPairs(<< <<K_ID, id>>, <<K_Name, <<"f">> >> >>, 2)

\* a row of codes.csv
Code(id, parameter_id, spreadsheet_value, name) ==
    DictOfPairs(<< <<K_ID, id>>,
                   <<K_Parameter_ID, parameter_id>>,
                   <<K_Spreadsheet_Value, spreadsheet_value>>,
                   <<K_Name, name>> >>, 4)

Code1 == Code(<<"k", "1">>, S_b_c, S_1, <<"o", "n", "e">>)
Code2 == Code(<<"k", "2">>, S_c, S_1, <<"u", "n", "o">>)
\* a code whose ID is the empty string
Code3 == Code(<<>>, S_c, S_x, <<"e", "x">>)
\* a code of the same parameter and spreadsheet value as Code1
Code4 == Code(<<"k", "4">>, S_b_c, S_1, <<"e", "i", "n", "s">>)

DefaultData == << DataRow(S_a, S_cite273, S_1, S_x) >>

DefaultExamples == << <<S_wara1247, Text2, Gloss2, S_trans, S_pc>> >>

DefaultParams == << Parameter(S_b_c), Parameter(S_c) >>

DefaultCodes == << Code1, Code2 >>

DefaultBib == <<"@book{", "Ringe1", "}", "Yahalom1", "Ringe1">>

\* the example files: every sequence of at most MaxExamples rows
Init ==
    /\ in_examples \in BoundedSeq(ExampleChoices, MaxExamples)
    /\ in_data = DefaultData
    /\ in_bib = DefaultBib
    /\ in_params = DefaultParams
    /\ in_codes = DefaultCodes
    /\ Blank

Spec == Init /\ [][Next]_vars

\* rows of estimative.csv: with and without the columns ID and Glottocode,
\* one without the column c, one without the column id
DataChoices ==
    { DataRow(S_a, S_pc, S_1, S_x),
      DataRow(S_a_b, S_cite273, <<>>, S_1),
      WithUpperColumns(DataRow(S_ab, S_pc, S_x, S_1)),
      Without(DataRow(S_a_b, S_pc, S_1, S_1), {S_c}),
      WithUpperColumns(Without(DataRow(S_a, S_pc, S_1, S_1), {K_id})) }

ParamChoices ==
    { <<>>,
      << Parameter(S_c) >>,
      << Parameter(S_b_c), Parameter(S_c) >>,
      << Parameter(S_c), Parameter(S_b_c) >>,
      << Parameter(S_c), Parameter(S_c) >> }

CodeChoices == {Code1, Code2, Code3, Code4}

\* the data, parameter and code files
InitData ==
    /\ in_data \in BoundedSeq(DataChoices, MaxRows)
    /\ in_params \in ParamChoices
    /\ in_codes \in BoundedSeq(CodeChoices, MaxCodes)
    /\ in_examples = DefaultExamples
    /\ in_bib = DefaultBib
    /\ Blank

SpecData == InitData /\ [][Next]_vars

RefCommands ==
    { <<"\\", "c", "i", "t", "e", "p">>,
      <<"\\", "c", "i", "t", "e", "t">>,
      <<"\\", "c", "i", "t", "e", "a", "l", "t">>,
      <<"\\", "c", "i", "t", "e">>,
      <<"\\", "c", "i", "t", "e", "a", "l">>,
      <<"c", "i", "t", "e", "p">>,
      <<" ", "\\", "c", "i", "t", "e", "p">>,
      <<"\\", "c", "i", "t", "e", "x">> }

RefLocators ==
    { <<>>,
      <<"[", "k", "]">>,
      <<"[", "k", ";", "k", "]">>,
      <<"[", ";", "k", ";", "]">>,
      <<"[", "]">>,
      <<"[", "k">>,
      <<"[", "k", "]", "]">>,
      <<"[", "{", "k", "}", "]">> }

RefKeys ==
    { <<"{", "k", "}">>,
      <<"{", "}">>,
      <<"{", "k", ";", "k", "}">>,
      <<"{", "k">>,
      <<"k", "}">>,
      <<>>,
      <<"{", "k", "[", "k", "]", "}">>,
      <<"{", "{", "k", "}">> }

RefRests == { <<>>, <<" ", "x">>, S_citep_j, <<"}">> }

RefAlphabet == {"[", "]", "{", "}", ";", "k"}

\* reference strings: a command, a locator, a key and a rest, each well or
\* badly formed; and a command followed by any tail of at most MaxTail
\* characters of RefAlphabet
RefStrings ==
    {c \o l \o k \o r : c \in RefCommands, l \in RefLocators, k \in RefKeys, r \in RefRests}
        \cup {c \o t : c \in { <<"\\", "c", "i", "t", "e", "p">>,
                               <<"\\", "c", "i", "t", "e", "a", "l", "t">>,
                               <<>> },
                       t \in BoundedSeq(RefAlphabet, MaxTail)}

\* one language row and one example row, the example with the reference
\* string of the language or with p.c.
InitRef ==
    /\ \E r \in RefStrings, e \in {"same", "p.c."} :
           /\ in_data = << DataRow(S_a, r, S_1, S_x) >>
           /\ in_examples = << <<S_wara1247, Text2, Gloss2, S_trans,
                                 IF e = "same" THEN r ELSE S_pc>> >>
    /\ in_bib = DefaultBib
    /\ in_params = DefaultParams
    /\ in_codes = DefaultCodes
    /\ Blank

SpecRef == InitRef /\ [][Next]_vars

(***************************************************************************)
(* Properties of the example table.                                        *)
(***************************************************************************)

\* the Language_ID an example row is to get: its first column, wara1247
\* corrected to wara1300
OutLanguage(i) ==
    IF in_examples[i][1] = S_wara1247 THEN S_wara1300 ELSE in_examples[i][1]

\* example i has been through the numbering loop
Numbered(i) ==
    /\ i \in 1..Len(example_table)
    /\ \/ pc = "number" /\ i < idx
       \/ pc \in {"schema", "output", "done"}

\* the number of words of s: the characters that start a run of non-spaces
WordCount(s) ==
    Cardinality({k \in 1..Len(s) : ~IsSpace(s[k]) /\ (k = 1 \/ IsSpace(s[k - 1]))})

\* row i of the example file has as many words as glosses, or not
Misaligned(i) == WordCount(in_examples[i][2]) # WordCount(in_examples[i][3])

WriterTouched ==
    writer_components # <<>> \/ writer_sources # <<>> \/ DOMAIN writer_objects # {}

\* C1: the k-th example, in input order, of output language L has the ID
\* "L-k": the numbers of a language start at 1 and go up by one, whatever other
\* languages' examples lie in between.
C1_SequenceNumbers ==
    \A i \in 1..Len(example_table) :
        Numbered(i) =>
            LET L == OutLanguage(i)
                k == Cardinality({j \in 1..i : OutLanguage(j) = L})
            IN  /\ example_table[i][K_Language_ID] = L
                /\ example_table[i][K_ID] = L \o <<"-">> \o Str(k)

\* a wara1247 example, one of another language, then a wara1300 example, which
\* is numbered 2
C1_Witness ==
    /\ pc = "done"
    /\ Len(in_examples) = 3
    /\ in_examples[1][1] = S_wara1247
    /\ in_examples[2][1] = S_a1
    /\ in_examples[3][1] = S_wara1300
    /\ writer_objects["ExampleTable"][3][K_ID] =
           <<"w", "a", "r", "a", "1", "3", "0", "0", "-", "2">>

\* C10: the IDs of the example table are pairwise distinct, also for language
\* ids that contain hyphens and digits.
C10_ExampleIdsDistinct ==
    \A i, j \in 1..Len(example_table) :
        (Numbered(i) /\ Numbered(j) /\ i # j) =>
            example_table[i][K_ID] # example_table[j][K_ID]

\* language a with ID a-1 next to language a-1 with ID a-1-1
C10_Witness ==
    /\ pc = "done"
    /\ Len(example_table) >= 2
    /\ example_table[1][K_ID] = <<"a", "-", "1">>
    /\ example_table[2][K_ID] = <<"a", "-", "1", "-", "1">>

\* the lines of stderr that start with "(ID)"
BlocksNaming(id) ==
    {k \in 1..Len(stderr) : StartsWithAt(stderr[k], 1, <<"(">> \o id \o <<")">>)}

\* once the validator has run: one record for each raw example, one block for
\* each misaligned example and none for an aligned one, and at the end all
\* five tables, the example table being the one that was built
C6_Reported ==
    pc \in {"schema", "output", "done"} =>
        /\ Len(example_table) = Len(in_examples)
        /\ \A i \in 1..Len(example_table) :
               Cardinality(BlocksNaming(example_table[i][K_ID])) =
                   IF Misaligned(i) THEN 1 ELSE 0
        /\ Cardinality({k \in 1..Len(stderr) : StartsWithAt(stderr[k], 1, <<"(">>)}) =
               Cardinality({i \in 1..Len(in_examples) : Misaligned(i)})
        /\ pc = "done" =>
               /\ DOMAIN writer_objects =
                      {"LanguageTable", "ParameterTable", "CodeTable",
                       "ValueTable", "ExampleTable"}
               /\ writer_objects["ExampleTable"] = example_table

\* C6: the Alignment Validator is advisory: every raw example has its record,
\* misaligned or not; each misaligned example gets exactly one diagnostic
\* block naming its ID and no aligned example gets one; a run fails, if at all,
\* before the examples are numbered, and one that has come that far goes on
\* to emit all five tables.
C6_Advisory ==
    /\ C6_Reported
    /\ pc = "failed" => (idx = 0 /\ stderr = <<>>)
    /\ pc = "number" => idx \in 1..Len(example_table) + 1

\* a misaligned example (three words, two glosses) after an aligned one, both
\* in the output, one block on stderr
C6_Witness ==
    /\ pc = "done"
    /\ Len(in_examples) = 2
    /\ ~Misaligned(1)
    /\ Misaligned(2)
    /\ Len(writer_objects["ExampleTable"][2][K_Analyzed_Word]) = 3
    /\ Len(writer_objects["ExampleTable"][2][K_Gloss]) = 2
    /\ Len(stderr) = 3

\* C7 as stated: a row of the example file with a column count other than 5
\* aborts the run, and no example table is emitted.
C7_AnyWrongCountFails ==
    (\E i \in 1..Len(in_examples) : Len(in_examples[i]) # 5) =>
        /\ pc # "done"
        /\ "ExampleTable" \notin DOMAIN writer_objects

\* with a row of fewer than 5 columns the run gets no further than the
\* building of the example table; with none, every row has its record, made
\* of its first five columns
C7_State ==
    /\ (\E i \in 1..Len(in_examples) : Len(in_examples[i]) < 5) =>
           /\ pc \in {"start", "languages", "values", "examples", "failed"}
           /\ ~WriterTouched
    /\ ((\A i \in 1..Len(in_examples) : Len(in_examples[i]) >= 5) /\ pc = "done") =>
           /\ Len(writer_objects["ExampleTable"]) = Len(in_examples)
           /\ \A i \in 1..Len(in_examples) :
                  /\ writer_objects["ExampleTable"][i][K_Language_ID] = OutLanguage(i)
                  /\ writer_objects["ExampleTable"][i][K_reference] = in_examples[i][5]

\* C7, amended: a row of the example file with fewer than 5 columns aborts the
\* run with an uncaught error at the building of the example table, and no
\* table is emitted; the columns of a row after the fifth are ignored, and the
\* run completes.
C7_ShortRowFails ==
    /\ []C7_State
    /\ [][(pc = "examples" /\ \E i \in 1..Len(in_examples) : Len(in_examples[i]) < 5)
              => (pc' = "failed")]_vars
    /\ [][(pc = "examples" /\ \A i \in 1..Len(in_examples) : Len(in_examples[i]) >= 5)
              => (pc' = "number")]_vars

\* a run that failed on a row of four columns, after a row of six
C7_Witness ==
    /\ pc = "failed"
    /\ Len(in_examples) = 2
    /\ Len(in_examples[1]) = 6
    /\ Len(in_examples[2]) = 4

\* C9: the writer is called only after all inputs were read, the three tables
\* were built and the validator has run; a run that failed has not touched
\* the writer.
C9_NoPartialOutput ==
    /\ WriterTouched =>
           /\ pc \in {"output", "done"}
           /\ raw_data = in_data
           /\ Len(language_table) = Len(in_data)
           /\ Len(value_table) = Len(in_data) * Len(in_params)
           /\ Len(example_table) = Len(in_examples)
           /\ \A i \in 1..Len(example_table) : K_ID \in DOMAIN example_table[i]
           /\ (\E i \in 1..Len(in_examples) : Misaligned(i)) => stderr # <<>>
    /\ pc = "failed" => ~WriterTouched
    /\ pc = "done" =>
           /\ Len(writer_components) = 4
           /\ Len(writer_sources) = 1
           /\ DOMAIN writer_objects =
                  {"LanguageTable", "ParameterTable", "CodeTable",
                   "ValueTable", "ExampleTable"}

\* a failed run, and the writer untouched
C9_Witness ==
    /\ pc = "failed"
    /\ in_examples # <<>>
    /\ language_table # <<>>
    /\ value_table # <<>>
    /\ ~WriterTouched

(***************************************************************************)
(* Properties of the source references.                                    *)
(***************************************************************************)

\* a record has one of Source and Source_comment and not the other; Source is
\* a list of one reference, Source_comment is the raw reference
ExactlyOneSource(rec) ==
    /\ (K_Source \in DOMAIN rec) # (K_Source_comment \in DOMAIN rec)
    /\ K_Source \in DOMAIN rec => Len(rec[K_Source]) = 1
    /\ K_Source_comment \in DOMAIN rec => rec[K_Source_comment] = rec[K_reference]

\* C2: every record of the language table and of the example table has exactly
\* one of the fields Source and Source_comment, whatever its raw reference
\* string is.
C2_ExactlyOneSource ==
    /\ \A i \in 1..Len(language_table) : ExactlyOneSource(language_table[i])
    /\ \A i \in 1..Len(example_table) : Numbered(i) => ExactlyOneSource(example_table[i])
    /\ pc = "done" =>
           /\ \A i \in 1..Len(in_data) :
                  ExactlyOneSource(writer_objects["LanguageTable"][i])
           /\ \A i \in 1..Len(in_examples) :
                  ExactlyOneSource(writer_objects["ExampleTable"][i])

\* a language with a citation and an example with a free-text reference
C2_Witness ==
    /\ pc = "done"
    /\ K_Source \in DOMAIN writer_objects["LanguageTable"][1]
    /\ K_Source_comment \notin DOMAIN writer_objects["LanguageTable"][1]
    /\ K_Source_comment \in DOMAIN writer_objects["ExampleTable"][1]
    /\ K_Source \notin DOMAIN writer_objects["ExampleTable"][1]

\* the locator with every semicolon turned into a comma
CommaLocator(loc) == [m \in 1..Len(loc) |-> IF loc[m] = ";" THEN "," ELSE loc[m]]

\* r[from..to] has no character c
Free(r, from, to, c) == \A m \in from..to : r[m] # c

\* the references a string that starts with a citation macro stands for: after
\* \citep, \citet or \citealt either {key}, or [locator]{key} with a locator of
\* at least one character
CitedReferences(r) ==
    UNION {
        LET n == 5 + Len(c)
        IN  IF Len(r) < n + 2 \/ SubSeq(r, 1, n) # <<"\\", "c", "i", "t", "e">> \o c
            THEN {}
            ELSE {SubSeq(r, n + 2, j - 1) :
                      j \in {j \in n + 2..Len(r) :
                                r[n + 1] = "{" /\ r[j] = "}" /\ Free(r, n + 2, j - 1, "}")}}
                 \cup
                 UNION {
                     {SubSeq(r, i + 2, j - 1) \o <<"[">>
                          \o CommaLocator(SubSeq(r, n + 2, i - 1)) \o <<"]">> :
                          j \in {j \in i + 2..Len(r) :
                                    r[j] = "}" /\ Free(r, i + 2, j - 1, "}")}} :
                     i \in {i \in n + 3..Len(r) - 2 :
                               /\ r[n + 1] = "["
                               /\ r[i] = "]"
                               /\ Free(r, n + 2, i - 1, "]")
                               /\ r[i + 1] = "{"}} :
        c \in { <<"p">>, <<"t">>, <<"a", "l", "t">> } }

\* the record of a reference that starts with a citation macro has the one
\* reference of the macro as its Source; a reference that does not start with
\* a backslash has no Source
SourceAsCited(rec) ==
    /\ \A e \in CitedReferences(rec[K_reference]) :
           K_Source \in DOMAIN rec /\ rec[K_Source] = <<e>>
    /\ (rec[K_reference] = <<>> \/ rec[K_reference][1] # "\\") =>
           K_Source \notin DOMAIN rec

\* C3: for a reference that starts with a citation macro (citep, citet or
\* citealt, an optional [locator], a {key}) Source is the list of the one
\* element key[locator], the semicolons of the locator turned into commas, or
\* key when there is no locator; what follows the macro is not looked at, and
\* a macro that is not at the start is not matched.
C3_SourceOfCitation ==
    /\ \A i \in 1..Len(language_table) : SourceAsCited(language_table[i])
    /\ \A i \in 1..Len(example_table) : Numbered(i) => SourceAsCited(example_table[i])

\* \citet[;k;]{k}\citep{j} gives k[,k,]
C3_Witness ==
    /\ pc = "done"
    /\ in_data[1][K_reference] =
           <<"\\", "c", "i", "t", "e", "t", "[", ";", "k", ";", "]", "{", "k", "}">>
               \o S_citep_j
    /\ writer_objects["LanguageTable"][1][K_Source] = << <<"k", "[", ",", "k", ",", "]">> >>
    /\ writer_objects["ExampleTable"][1][K_Source] = << <<"k", "[", ",", "k", ",", "]">> >>

(***************************************************************************)
(* Properties of the value table and of the language table.                *)
(***************************************************************************)

ValueTableBuilt == pc \in {"examples", "number", "schema", "output", "done"}

LanguageTableBuilt == pc \in {"values", "examples", "number", "schema", "output", "done"}

\* the row of value_table of data row r and parameter k
ValueOf(r, k) == value_table[(r - 1) * Len(in_params) + k]

\* no two codes of the code file have the same Parameter_ID and
\* Spreadsheet_Value
PairsUnique ==
    \A i, j \in 1..Len(in_codes) :
        (i # j) =>
            <<in_codes[i][K_Parameter_ID], in_codes[i][K_Spreadsheet_Value]>> #
                <<in_codes[j][K_Parameter_ID], in_codes[j][K_Spreadsheet_Value]>>

\* the codes of parameter p whose Spreadsheet_Value is the cell
CodesOf(p, cell) ==
    {in_codes[i] : i \in {i \in 1..Len(in_codes) :
                             /\ in_codes[i][K_Parameter_ID] = p
                             /\ in_codes[i][K_Spreadsheet_Value] = cell}}

\* the value rows are those of the codes in codes (all of them, or those
\* with an ID that is not empty), and the raw cell where there is no code
ValuesFollowCodes(nonEmptyOnly) ==
    \A r \in 1..Len(in_data) : \A k \in 1..Len(in_params) :
        LET p == in_params[k][K_ID]
            cell == in_data[r][p]
            v == ValueOf(r, k)
            codes == {c \in CodesOf(p, cell) : ~nonEmptyOnly \/ c[K_ID] # <<>>}
        IN  IF codes # {}
            THEN \A c \in codes :
                     /\ v[K_Value] = c[K_Name]
                     /\ K_Code_ID \in DOMAIN v
                     /\ v[K_Code_ID] = c[K_ID]
            ELSE /\ v[K_Value] = cell
                 /\ K_Code_ID \notin DOMAIN v

\* C4: with (Parameter_ID, Spreadsheet_Value) unique in the code set, a cell
\* that is the Spreadsheet_Value of a code c of the parameter gives Value =
\* c.Name and Code_ID = c.ID; any other cell gives Value = the cell and no
\* Code_ID.
C4_ValueFromCode ==
    (ValueTableBuilt /\ PairsUnique) => ValuesFollowCodes(FALSE)

\* what make_value does establish: the same, for the codes whose ID is not
\* the empty string; a code with an empty ID counts as no code
C4_ValueFromNamedCode ==
    (ValueTableBuilt /\ PairsUnique) => ValuesFollowCodes(TRUE)

\* a value with a code and a value without, in one table
C4_Witness ==
    /\ pc = "done"
    /\ PairsUnique
    /\ \E i, j \in 1..Len(value_table) :
           /\ K_Code_ID \in DOMAIN value_table[i]
           /\ K_Code_ID \notin DOMAIN value_table[j]

Distinct(seq) == \A i, j \in 1..Len(seq) : (i # j) => seq[i] # seq[j]

LanguageIds == [r \in 1..Len(in_data) |-> in_data[r][K_id]]

ParameterIds == [k \in 1..Len(in_params) |-> in_params[k][K_ID]]

ValueIds == [n \in 1..Len(value_table) |-> value_table[n][K_ID]]

HasHyphen(s) == \E m \in 1..Len(s) : s[m] = "-"

\* C5 as stated: the IDs of the value table are pairwise distinct whenever
\* the language ids are and the parameter IDs are.
C5_ValueIdsDistinct ==
    (ValueTableBuilt /\ Distinct(LanguageIds) /\ Distinct(ParameterIds)) =>
        Distinct(ValueIds)

\* C5, amended: the IDs of the value table are pairwise distinct whenever the
\* language ids are pairwise distinct, the parameter IDs are pairwise distinct,
\* and no language id or no parameter ID contains a hyphen.
C5_DistinctWithoutHyphens ==
    (/\ ValueTableBuilt
     /\ Distinct(LanguageIds)
     /\ Distinct(ParameterIds)
     /\ \/ \A r \in 1..Len(in_data) : ~HasHyphen(LanguageIds[r])
        \/ \A k \in 1..Len(in_params) : ~HasHyphen(ParameterIds[k]))
        => Distinct(ValueIds)

\* two languages without a hyphen and two parameters, one with a hyphen: four
\* values
C5_Witness ==
    /\ pc = "done"
    /\ Len(in_data) = 2
    /\ LanguageIds = <<S_a, S_ab>>
    /\ ParameterIds = <<S_b_c, S_c>>
    /\ Len(writer_objects["ValueTable"]) = 4

\* C8 as stated: a raw row with the columns Glottocode and ID gives a record
\* with one field id, whose value is the row's Glottocode.
C8_IdFromGlottocode ==
    LanguageTableBuilt =>
        \A i \in 1..Len(in_data) :
            ({K_Glottocode, K_ID} \subseteq DOMAIN in_data[i]) =>
                /\ K_id \in DOMAIN language_table[i]
                /\ language_table[i][K_id] = in_data[i][K_Glottocode]

\* C8, amended: the Language Table Builder reads the raw column id and writes
\* its value to the two output fields ID and Glottocode; the record has no
\* field id, its other fields are the raw columns family_id, parent_id, name,
\* latitude, longitude, iso639P3code and reference under their output names,
\* raw columns named ID or Glottocode are ignored, and a raw row without the
\* column id ends the run before any language record is built.
C8_IdToIdAndGlottocode ==
    /\ LanguageTableBuilt =>
           \A i \in 1..Len(in_data) :
               /\ DOMAIN language_table[i] \ {K_Source, K_Source_comment} =
                      {K_ID, K_Glottocode, K_Family_ID, K_Parent_ID, K_Name,
                       K_Latitude, K_Longitude, K_ISO639P3code, K_reference}
               /\ language_table[i][K_ID] = in_data[i][K_id]
               /\ language_table[i][K_Glottocode] = in_data[i][K_id]
               /\ language_table[i][K_Family_ID] = in_data[i][K_family_id]
               /\ language_table[i][K_Parent_ID] = in_data[i][K_parent_id]
               /\ language_table[i][K_Name] = in_data[i][K_name]
               /\ language_table[i][K_Latitude] = in_data[i][K_latitude]
               /\ language_table[i][K_Longitude] = in_data[i][K_longitude]
               /\ language_table[i][K_ISO639P3code] = in_data[i][K_iso639P3code]
               /\ language_table[i][K_reference] = in_data[i][K_reference]
    /\ (\E i \in 1..Len(in_data) : K_id \notin DOMAIN in_data[i]) =>
           /\ pc \in {"start", "languages", "failed"}
           /\ language_table = <<>>

\* a raw row with the columns ID = 7, Glottocode = glot1234 and id = ab: the
\* record has ID = Glottocode = ab
C8_Witness ==
    /\ pc = "done"
    /\ Len(in_data) >= 1
    /\ {K_Glottocode, K_ID, K_id} \subseteq DOMAIN in_data[1]
    /\ in_data[1][K_Glottocode] # in_data[1][K_id]
    /\ writer_objects["LanguageTable"][1][K_ID] = S_ab
    /\ writer_objects["LanguageTable"][1][K_Glottocode] = S_ab

====
